---------------------------- MODULE Spec2Model ----------------------------
(***************************************************************************)
(* FrAD (Fourier Analogue-in-Digital) decoder core.                        *)
(*                                                                         *)
(* The module models                                                       *)
(*   - the Decode object of decode.rs (process, flush, overlap),           *)
(*   - the CRC-32 / CRC-16 tables and functions of common.rs,              *)
(*   - decode_rs / unecc of tools/ecc/mod.rs,                              *)
(*   - exp_golomb_encode / exp_golomb_decode of p1tools.rs,                *)
(*   - the sample-count behaviour of the profile decoders.                 *)
(*                                                                         *)
(* Bytes are integers 0..255.  Machine words wider than TLC's integers     *)
(* are sequences: a u32 is its 32 bits, an i64 its 8 bytes, most            *)
(* significant first.                                                      *)
(***************************************************************************)
EXTENDS Integers, Sequences, FiniteSets, TLC

VARIABLES
    asfh,              \* Decode.asfh: the header being parsed / decoded
    info,              \* Decode.info: snapshot of the last adopted header
    buffer,            \* Decode.buffer: bytes fed and not yet consumed
    overlap_fragment,  \* Decode.overlap_fragment: retained tail rows
    fix_error,         \* Decode.fix_error
    debug_build,       \* TRUE: arithmetic overflow panics; FALSE: it wraps
    panicked,          \* the thread has unwound out of a call
    items,             \* the stream: a sequence of frames and garbage strings
    pos,               \* how many bytes of the stream the caller has fed
    arrived,           \* how many items the stream has been given so far
    last,              \* outcome of the last call on the decoder
    out,               \* PCM rows the caller has collected so far
    events,            \* sample rates of the reconfig events seen so far
    ref,               \* a second decoder, fed the stream without its garbage
    fcall              \* a call of a pure function: name, argument, result

vars == <<asfh, info, buffer, overlap_fragment, fix_error, debug_build,
          panicked, items, pos, arrived, last, out, events, ref, fcall>>

(***************************************************************************)
(* Sequences and bit vectors                                               *)
(***************************************************************************)
Min(a, b) == IF a < b THEN a ELSE b

Max(a, b) == IF a < b THEN b ELSE a

Range(s) == {s[i] : i \in DOMAIN s}

\* The function f on 1..n as an evaluated sequence (TLC leaves a function
\* expression unevaluated, and would evaluate it again at every use).
Evaluated(f) == SubSeq(f, 1, Len(f))

Zeros(n) == Evaluated([i \in 1..n |-> 0])

Ones(n) == Evaluated([i \in 1..n |-> 1])

RECURSIVE Concat(_)
Concat(ss) == IF ss = <<>> THEN <<>> ELSE Head(ss) \o Concat(Tail(ss))

\* The first n elements of s (all of s when it is shorter).
Take(s, n) == SubSeq(s, 1, Min(n, Len(s)))

\* s without its first n elements.
Drop(s, n) == SubSeq(s, Min(n, Len(s)) + 1, Len(s))

\* The w-bit vector of the natural number n (n < 2^31).
NatToBits(n, w) ==
    Evaluated([i \in 1..w |-> IF w - i > 30 THEN 0 ELSE (n \div (2 ^ (w - i))) % 2])

\* The natural number of a bit vector short enough for TLC's integers.
RECURSIVE BitsToNat(_)
BitsToNat(b) ==
    IF b = <<>> THEN 0 ELSE 2 * BitsToNat(SubSeq(b, 1, Len(b) - 1)) + b[Len(b)]

XorBits(a, b) == Evaluated([i \in 1..Len(a) |-> (a[i] + b[i]) % 2])

\* Logical shift right by n of a fixed-width vector.
ShrBits(a, n) == Zeros(Min(n, Len(a))) \o SubSeq(a, 1, Len(a) - Min(n, Len(a)))

\* bitcvt::to_bits: the bits of the bytes, most significant bit first.
to_bits(bytes) ==
    Evaluated([i \in 1..(8 * Len(bytes)) |->
                  (bytes[((i - 1) \div 8) + 1] \div (2 ^ (7 - ((i - 1) % 8)))) % 2])

\* bitcvt::to_bytes: octets of the bit string, the last one zero padded.
to_bytes(bits) ==
    LET n == (Len(bits) + 7) \div 8
        padded == bits \o Zeros(8 * n - Len(bits))
    IN  Evaluated([i \in 1..n |-> BitsToNat(SubSeq(padded, 8 * i - 7, 8 * i))])

\* to_be_bytes of a word of whole octets: its octets, most significant first.
to_be_bytes(word) ==
    Evaluated([i \in 1..(Len(word) \div 8) |-> BitsToNat(SubSeq(word, 8 * i - 7, 8 * i))])

(***************************************************************************)
(* common.rs: signatures and CRC                                           *)
(***************************************************************************)
FRM_SIGN == <<\hff, \hd0, \hd2, \h97>>

\* 0xedb88320
Crc32Poly == NatToBits(\hedb8, 16) \o NatToBits(\h8320, 16)

\* 0xA001
Crc16Poly == NatToBits(\ha001, 16)

\* One step of the table generators' inner loop.
CrcTableStep(crc, poly) ==
    IF crc[Len(crc)] = 1 THEN XorBits(ShrBits(crc, 1), poly) ELSE ShrBits(crc, 1)

\* The table generators' inner loop, j steps of it.
RECURSIVE CrcTableEntry(_, _, _)
CrcTableEntry(crc, poly, j) ==
    IF j = 0 THEN crc ELSE CrcTableStep(CrcTableEntry(crc, poly, j - 1), poly)

\* The tables are sequences: entry i of the array is element i + 1.
gcrc32t ==
    Evaluated([i \in 1..256 |-> CrcTableEntry(NatToBits(i - 1, 32), Crc32Poly, 8)])

CRC32T == gcrc32t

gcrc16t_ansi ==
    Evaluated([i \in 1..256 |-> CrcTableEntry(NatToBits(i - 1, 16), Crc16Poly, 8)])

CRC16T_ANSI == gcrc16t_ansi

Crc32InitZero == Zeros(32)

Crc32Init == Ones(32)

Crc32FinalXor == Ones(32)

Crc16Init == Zeros(16)

\* crc32's loop body: crc = (crc >> 8) ^ CRC32T[((crc & 0xff) ^ byte)]
Crc32Step(crc, byte) ==
    XorBits(ShrBits(crc, 8),
            CRC32T[BitsToNat(XorBits(SubSeq(crc, 25, 32), NatToBits(byte, 8))) + 1])

RECURSIVE Crc32Loop(_, _)
Crc32Loop(crc, data) ==
    IF data = <<>> \/ Len(crc) # 32 THEN crc
    ELSE Crc32Loop(Crc32Step(crc, Head(data)), Tail(data))

\* crc32: the checksum as 4 bytes, big endian.
crc32(data) == to_be_bytes(XorBits(Crc32Loop(Crc32Init, data), Crc32FinalXor))

\* crc16_ansi's loop body: crc = (crc >> 8) ^ CRC16T_ANSI[((crc ^ byte) & 0xff)]
Crc16Step(crc, byte) ==
    XorBits(ShrBits(crc, 8),
            CRC16T_ANSI[BitsToNat(XorBits(SubSeq(crc, 9, 16), NatToBits(byte, 8))) + 1])

RECURSIVE Crc16Loop(_, _)
Crc16Loop(crc, data) ==
    IF data = <<>> \/ Len(crc) # 16 THEN crc
    ELSE Crc16Loop(Crc16Step(crc, Head(data)), Tail(data))

\* crc16_ansi: the checksum as 2 bytes, big endian.
crc16_ansi(data) == to_be_bytes(Crc16Loop(Crc16Init, data))

(***************************************************************************)
(* backend: buffer helpers                                                 *)
(***************************************************************************)
starts_with(s, pat) == Len(s) >= Len(pat) /\ SubSeq(s, 1, Len(pat)) = pat

\* Offsets (0-based) at which pat occurs in s.
PatternAt(s, pat) ==
    {i \in 0..(Len(s) - Len(pat)) : SubSeq(s, i + 1, i + Len(pat)) = pat}

\* VecPatternFind::find_pattern: the first offset of pat in s, or -1 for None.
find_pattern(s, pat) ==
    IF PatternAt(s, pat) = {} THEN -1
    ELSE CHOOSE i \in PatternAt(s, pat) : \A j \in PatternAt(s, pat) : i <= j

\* SplitFront::split_front: the part removed and the part left.
split_front(s, n) == [front |-> Take(s, n), rest |-> Drop(s, n)]

\* usize::saturating_sub
saturating_sub(a, b) == IF a < b THEN 0 ELSE a - b

(***************************************************************************)
(* profiles: tables                                                        *)
(***************************************************************************)
LOSSLESS == {0, 4}

COMPACT == {1}

\* fourier/mod.rs DEPTHS (Profile 0), indexed from 0.
DEPTHS == <<12, 16, 24, 32, 48, 64>>

\* profile1.rs SRATES, indexed from 0.
SRATES == <<96000, 88200, 64000, 48000, 44100, 32000,
            24000, 22050, 16000, 12000, 11025, 8000>>

(***************************************************************************)
(* tools/asfh: the frame header                                            *)
(*                                                                         *)
(* Wire layout used by this model (one octet per field):                   *)
(*   FF D0 D2 97 | frmbytes | pfb | css | olap | [dlen codelen crc..]      *)
(*   pfb = profile(3) ecc(1) endian(1) bit_depth(3)                        *)
(*   css = channels-1(2) srate index(4) reserved(1) force_flush(1)         *)
(* The bracketed part is present iff ecc is set; its CRC field is 2 bytes  *)
(* (CRC-16) for a compact profile and 4 bytes (CRC-32) for any other.      *)
(***************************************************************************)
ASFH_new ==
    [buffer |-> <<>>, all_set |-> FALSE, profile |-> 0, ecc |-> FALSE,
     endian |-> FALSE, bit_depth |-> 0, channels |-> 0, srate |-> 0,
     frmbytes |-> 0, ecc_ratio |-> <<0, 0>>, crc32 |-> Zeros(4),
     crc16 |-> Zeros(2), olap |-> 0, total_bytes |-> 0]

\* ASFH::clear
ASFH_clear(a) == ASFH_new

\* Length of the fixed part of a header.
HdrBase == Len(FRM_SIGN) + 4

CrcLen(profile) == IF profile \in COMPACT THEN 2 ELSE 4

\* Move bytes from the shared buffer until the header buffer holds target bytes.
fill_buffer(a, buf, target) ==
    LET need == saturating_sub(target, Len(a.buffer))
    IN  [asfh |-> [a EXCEPT !.buffer = @ \o Take(buf, need)],
         buffer |-> Drop(buf, need),
         ok |-> Len(a.buffer) + Min(need, Len(buf)) >= target]

\* The fields of the fixed part.
ParseBase(a) ==
    LET h == a.buffer
        sidx == (h[7] \div 4) % 16
    IN  [a EXCEPT !.frmbytes = h[5],
                  !.profile = h[6] \div 32,
                  !.ecc = ((h[6] \div 16) % 2 = 1),
                  !.endian = ((h[6] \div 8) % 2 = 1),
                  !.bit_depth = h[6] % 8,
                  !.channels = h[7] \div 64 + 1,
                  !.srate = IF sidx < Len(SRATES) THEN SRATES[sidx + 1] ELSE 0,
                  !.olap = h[8]]

ForceFlushBit(a) == a.buffer[7] % 2 = 1

\* The fields of the ECC part.
ParseEcc(a) ==
    LET h == a.buffer
        crc == SubSeq(h, HdrBase + 3, HdrBase + 2 + CrcLen(a.profile))
    IN  [a EXCEPT !.ecc_ratio = <<h[HdrBase + 1], h[HdrBase + 2]>>,
                  !.crc32 = IF a.profile \in COMPACT THEN @ ELSE crc,
                  !.crc16 = IF a.profile \in COMPACT THEN crc ELSE @]

Complete(a) ==
    [a EXCEPT !.all_set = TRUE, !.total_bytes = Len(a.buffer) + a.frmbytes]

\* ASFH::read_buf. status: "continue" = Ok(false), "flush" = Ok(true),
\* "incomplete" = Err.
read_buf(a, buf) ==
    LET f1 == fill_buffer(a, buf, HdrBase)
    IN  IF ~f1.ok
        THEN [asfh |-> f1.asfh, buffer |-> f1.buffer, status |-> "incomplete"]
        ELSE
        LET p1 == ParseBase(f1.asfh)
        IN  IF ForceFlushBit(p1)
            THEN [asfh |-> Complete(p1), buffer |-> f1.buffer, status |-> "flush"]
            ELSE IF ~p1.ecc
            THEN [asfh |-> Complete(p1), buffer |-> f1.buffer, status |-> "continue"]
            ELSE
            LET f2 == fill_buffer(f1.asfh, f1.buffer, HdrBase + 2 + CrcLen(p1.profile))
            IN  IF ~f2.ok
                THEN [asfh |-> f2.asfh, buffer |-> f2.buffer, status |-> "incomplete"]
                ELSE [asfh |-> Complete(ParseEcc(ParseBase(f2.asfh))),
                      buffer |-> f2.buffer, status |-> "continue"]

\* ASFH::criteq: the critical-parameter predicate.
criteq(a, b) ==
    /\ a.profile = b.profile
    /\ a.srate = b.srate
    /\ a.channels = b.channels
    /\ a.bit_depth = b.bit_depth

(***************************************************************************)
(* tools/ecc: Reed-Solomon layer                                           *)
(*                                                                         *)
(* RSCodec::new(codelen, block_sz, 0, 0x11d, 2, 8): a systematic           *)
(* Reed-Solomon code over GF(2^8) with primitive polynomial 0x11d,         *)
(* generator 2, first consecutive root 0 and nsym = codelen parity bytes,  *)
(* decoded up to nsym / 2 byte errors per block.                           *)
(***************************************************************************)
RsPrim == \h11d

RsGenerator == 2

RsFcr == 0

RsCExp == 8

\* The order of the multiplicative group of the field.
RsOrder == 2 ^ RsCExp - 1

\* Bitwise exclusive or of two naturals below 2^9: addition in GF(2^8).
BitXor(a, b) ==
    LET X(k) == ((a \div (2 ^ k)) + (b \div (2 ^ k))) % 2
    IN  X(0) + 2 * X(1) + 4 * X(2) + 8 * X(3) + 16 * X(4) + 32 * X(5)
        + 64 * X(6) + 128 * X(7) + 256 * X(8)

\* x times the generator, reduced by the primitive polynomial.
GfTimesGenerator(x) ==
    IF RsGenerator * x > RsOrder THEN BitXor(RsGenerator * x, RsPrim)
    ELSE RsGenerator * x

\* start * generator^0 .. start * generator^(n - 1), for n >= 1.
RECURSIVE GfPowers(_, _)
GfPowers(start, n) ==
    IF n = 1 THEN <<start>>
    ELSE LET left == GfPowers(start, n \div 2)
         IN  left \o GfPowers(GfTimesGenerator(left[Len(left)]), n - (n \div 2))

\* gf_exp: GfExp[i + 1] = generator^i.
GfExp == GfPowers(1, RsOrder)

\* gf_log
GfLog ==
    Evaluated([x \in 1..RsOrder |-> CHOOSE i \in 0..(RsOrder - 1) : GfExp[i + 1] = x])

gf_mul(a, b) ==
    IF a = 0 \/ b = 0 THEN 0 ELSE GfExp[((GfLog[a] + GfLog[b]) % RsOrder) + 1]

gf_pow(e) == GfExp[(e % RsOrder) + 1]

\* The word w as a polynomial (highest degree first) evaluated at x.
RECURSIVE RsEval(_, _)
RsEval(w, x) ==
    IF w = <<>> THEN 0
    ELSE BitXor(gf_mul(RsEval(SubSeq(w, 1, Len(w) - 1), x), x), w[Len(w)])

\* All nsym syndromes of w are zero: w is a code word.
RsCodeWord(w, nsym) ==
    \A j \in 0..(nsym - 1) : RsEval(w, gf_pow(RsFcr + j)) = 0

\* p(x) * (x + r)
PolyMulLinear(p, r) ==
    Evaluated([i \in 1..(Len(p) + 1) |->
                  BitXor(IF i <= Len(p) THEN p[i] ELSE 0,
                         IF i > 1 THEN gf_mul(p[i - 1], r) ELSE 0)])

\* The generator polynomial with roots generator^fcr .. generator^(fcr+n-1).
RECURSIVE RsGenPoly(_)
RsGenPoly(n) ==
    IF n = 0 THEN <<1>>
    ELSE PolyMulLinear(RsGenPoly(n - 1), gf_pow(RsFcr + n - 1))

\* The remainder of d divided by the monic polynomial g.
RECURSIVE PolyRem(_, _)
PolyRem(d, g) ==
    IF Len(d) < Len(g) THEN d
    ELSE PolyRem(Evaluated([i \in 1..(Len(d) - 1) |->
                    BitXor(d[i + 1],
                           IF i + 1 <= Len(g) THEN gf_mul(d[1], g[i + 1]) ELSE 0)]), g)

\* The bytes to try at the places E of chunk.  With fcr = 0 the syndrome at
\* generator^0 is the sum of the errors, so a single wrong byte is off by it.
RsRepairs(chunk, E) ==
    IF Cardinality(E) = 1 /\ RsFcr = 0
    THEN {[i \in E |-> BitXor(chunk[i], RsEval(chunk, gf_pow(0)))]}
    ELSE [E -> 0..RsOrder]

\* The words that differ from chunk in at most t places.
RsNear(chunk, t) ==
    UNION {{[i \in DOMAIN chunk |-> IF i \in E THEN v[i] ELSE chunk[i]] :
                v \in RsRepairs(chunk, E)} :
           E \in {E \in SUBSET (DOMAIN chunk) : Cardinality(E) <= t}}

\* RSCodec::encode: the message followed by its nsym parity bytes.
rs_encode(msg, nsym) == msg \o PolyRem(msg \o Zeros(nsym), RsGenPoly(nsym))

\* What decoding yields from the code words within reach of the chunk.
RsDecoded(chunk, nsym, cands) ==
    IF Len(chunk) <= nsym \/ cands = {}
    THEN [ok |-> FALSE, data |-> <<>>]
    ELSE [ok |-> TRUE,
          data |-> SubSeq(CHOOSE w \in cands : TRUE, 1, Len(chunk) - nsym)]

\* RSCodec::decode: Ok(message) or Err.
rs_decode(chunk, nsym) ==
    RsDecoded(chunk, nsym, {w \in RsNear(chunk, nsym \div 2) : RsCodeWord(w, nsym)})

\* What a decoded chunk adds when a failing block is dropped instead.
DecodedOrNothing(r, dlen) == IF r.ok THEN r.data ELSE <<>>

\* What a decoded chunk adds to decode_rs's output.
DecodedOrZeros(r, dlen) == IF r.ok THEN r.data ELSE Zeros(dlen)

\* slice::chunks(n): consecutive pieces of n elements, the last one shorter.
RECURSIVE chunks(_, _)
chunks(data, n) ==
    IF data = <<>> THEN <<>> ELSE <<Take(data, n)>> \o chunks(Drop(data, n), n)

\* encode_rs
encode_rs(data, dlen, codelen) ==
    Concat([i \in DOMAIN chunks(data, dlen) |-> rs_encode(chunks(data, dlen)[i], codelen)])

\* decode_rs's loop over the decoded chunks.
RECURSIVE DecodeRsLoop(_, _, _)
DecodeRsLoop(cs, dlen, codelen) ==
    IF cs = <<>> THEN <<>>
    ELSE DecodedOrZeros(rs_decode(Head(cs), codelen), dlen)
         \o DecodeRsLoop(Tail(cs), dlen, codelen)

\* decode_rs.  chunks(0) panics.
decode_rs(data, dlen, codelen) ==
    IF dlen + codelen = 0 THEN [panic |-> TRUE, data |-> <<>>]
    ELSE [panic |-> FALSE,
          data |-> DecodeRsLoop(chunks(data, dlen + codelen), dlen, codelen)]

\* unecc.  chunks(0) panics; chunk.len() - codelen underflows on a chunk
\* shorter than codelen: a panic with overflow checks, else the subtraction
\* wraps and take() keeps the whole chunk.
unecc(data, dlen, codelen, checks) ==
    LET cs == chunks(data, dlen + codelen)
        under == \E i \in DOMAIN cs : Len(cs[i]) < codelen
    IN  IF dlen + codelen = 0 \/ (under /\ checks) THEN [panic |-> TRUE, data |-> <<>>]
        ELSE [panic |-> FALSE,
              data |-> Concat([i \in DOMAIN cs |->
                          IF Len(cs[i]) < codelen THEN cs[i]
                          ELSE Take(cs[i], Len(cs[i]) - codelen)])]

(***************************************************************************)
(* fourier: the profile decoders                                           *)
(*                                                                         *)
(* A PCM row is [w |-> its channel count, s |-> the term that names its    *)
(* samples]: the IDCT output is a function of the payload, the depth, the  *)
(* channel count and the row index, and the model keeps these arguments.   *)
(***************************************************************************)
Row(profile, frad, bits, channels, aux, i) ==
    [w |-> channels, s |-> <<profile, bits, aux, frad, i>>]

Rows(profile, frad, bits, channels, aux, samples) ==
    Evaluated([i \in 1..samples |-> Row(profile, frad, bits, channels, aux, i)])

\* u8pack::unpack: how many floats n bytes hold at depth bits; the
\* try_into().unwrap() of a partial last chunk panics.
unpack_len(n, bits) ==
    IF bits % 3 = 0
    THEN [panic |-> FALSE, count |-> (8 * n) \div bits]
    ELSE [panic |-> n % (bits \div 8) # 0, count |-> n \div (bits \div 8)]

\* fourier::digital (Profile 0)
profile0_digital(frad, bits, channels, little_endian) ==
    IF bits >= Len(DEPTHS) THEN [panic |-> TRUE, pcm |-> <<>>]
    ELSE
    LET u == unpack_len(Len(frad), DEPTHS[bits + 1])
        samples == u.count \div channels
    IN  IF u.panic \/ samples = 0 THEN [panic |-> TRUE, pcm |-> <<>>]
        ELSE [panic |-> FALSE,
              pcm |-> Rows(0, frad, bits, channels, little_endian, samples)]

\* First octet of a zlib stream (deflate, 32K window).
ZlibMagic == \h78

\* ZlibDecoder::read_to_end: the body is a stream iff it starts with the zlib
\* header octet; what follows stands for the inflated bytes.
inflate(frad) ==
    IF frad # <<>> /\ frad[1] = ZlibMagic
    THEN [ok |-> TRUE, data |-> Tail(frad)]
    ELSE [ok |-> FALSE, data |-> <<>>]

\* profile1::digital.  The inflated bytes stand for one quantised coefficient
\* each; channel c takes every channels-th coefficient from c on, and the
\* rows are built over the length of channel 0.
profile1_digital(frad, bits, channels, srate) ==
    LET z == inflate(frad)
        n == Len(z.data)
    IN  IF ~z.ok \/ n % channels # 0 THEN [panic |-> TRUE, pcm |-> <<>>]
        ELSE [panic |-> FALSE,
              pcm |-> Rows(1, frad, bits, channels, srate, n \div channels)]

\* profile4::digital: raw PCM, one octet per sample value in this model.
profile4_digital(frad, bits, channels, little_endian) ==
    [panic |-> FALSE,
     pcm |-> Rows(4, frad, bits, channels, little_endian, Len(frad) \div channels)]

(***************************************************************************)
(* decode.rs: the Decode object                                            *)
(*                                                                         *)
(* A decoder value d is [asfh, info, buffer, overlap_fragment].  A call    *)
(* in progress is d extended with ret (the PCM collected so far) and log   *)
(* (what the call did, one entry per header completed, frame decoded or    *)
(* sync search missed).                                                    *)
(***************************************************************************)
Decode_new ==
    [asfh |-> ASFH_new, info |-> ASFH_new, buffer |-> <<>>, overlap_fragment |-> <<>>]

\* The cross-faded row: frame[i][c] * fade_in[i] + overlap_fragment[i][c] * fade_out[i]
\* for c < channels, with fade_in = linspace(0, 1, L), fade_out = linspace(1, 0, L).
MixRow(new, old, i, L, channels) ==
    [w |-> new.w, s |-> <<"mix", new.s, old.s, i, L, channels>>]

\* A cut that hands on the first 1/olap of the frame and retains the rest.
OverlapCutHead(len, olap) == len \div olap

\* Decode::overlap 2: where the frame is split, (len * (olap - 1)) / olap.
OverlapCut(len, olap) == (len * (olap - 1)) \div olap

\* Decode::overlap.  Indexing frame[i][c] or overlap_fragment[i][c] out of
\* range panics.
overlap(frame, ov, a) ==
    LET L == Len(ov)
        oob == /\ L > 0
               /\ a.channels > 0
               /\ \/ Len(frame) < L
                  \/ \E i \in 1..Min(L, Len(frame)) :
                        frame[i].w < a.channels \/ ov[i].w < a.channels
        mixed == Evaluated([i \in 1..Len(frame) |->
                    IF i <= L THEN MixRow(frame[i], ov[i], i, L, a.channels)
                    ELSE frame[i]])
        split == a.profile \in COMPACT /\ a.olap # 0
        olap == Max(a.olap, 2)
        cut == OverlapCut(Len(frame), olap)
    IN  IF oob THEN [panic |-> TRUE, frame |-> <<>>, next |-> <<>>]
        ELSE [panic |-> FALSE,
              frame |-> IF split THEN Take(mixed, cut) ELSE mixed,
              next |-> IF split THEN Drop(mixed, cut) ELSE <<>>]

\* flush without its step 3 (the overlap buffer is not cleared).
FlushKeep(d) ==
    [ret |-> d.overlap_fragment, d |-> [d EXCEPT !.asfh = ASFH_clear(d.asfh)]]

\* Decode::flush on d: the block returned and the decoder left.
flush(d) ==
    [ret |-> d.overlap_fragment,
     d |-> [d EXCEPT !.overlap_fragment = <<>>, !.asfh = ASFH_clear(d.asfh)]]

\* process 1.2: the CRC carried in the header differs from the payload's.
crc_mismatch(a, frad) ==
    \/ a.profile \in LOSSLESS /\ crc32(frad) # a.crc32
    \/ a.profile \in COMPACT /\ crc16_ansi(frad) # a.crc16

\* An ECC stage that repairs on every CRC mismatch, whatever fix_error says.
EccStageAlwaysRepair(a, frad) ==
    IF ~a.ecc THEN [panic |-> FALSE, data |-> frad, path |-> "none"]
    ELSE IF crc_mismatch(a, frad)
    THEN [path |-> "decode_rs"] @@ decode_rs(frad, a.ecc_ratio[1], a.ecc_ratio[2])
    ELSE [path |-> "unecc"] @@ unecc(frad, a.ecc_ratio[1], a.ecc_ratio[2], debug_build)

\* process 1.2: error correction or ECC removal.
ecc_stage(a, frad) ==
    IF ~a.ecc THEN [panic |-> FALSE, data |-> frad, path |-> "none"]
    ELSE IF fix_error /\ crc_mismatch(a, frad)
    THEN [path |-> "decode_rs"] @@ decode_rs(frad, a.ecc_ratio[1], a.ecc_ratio[2])
    ELSE [path |-> "unecc"] @@ unecc(frad, a.ecc_ratio[1], a.ecc_ratio[2], debug_build)

\* process 1.3: dispatch on the profile.
digital(a, frad) ==
    CASE a.profile = 1 -> profile1_digital(frad, a.bit_depth, a.channels, a.srate)
      [] a.profile = 4 -> profile4_digital(frad, a.bit_depth, a.channels, a.endian)
      [] OTHER -> profile0_digital(frad, a.bit_depth, a.channels, a.endian)

\* What a call hands back: (ret, srate, critical_info_modified), the decoder
\* it leaves, whether it unwound instead, and the call's log.
Return(st, srate, reconfig) ==
    [d |-> [asfh |-> st.asfh, info |-> st.info, buffer |-> st.buffer,
            overlap_fragment |-> st.overlap_fragment],
     ret |-> st.ret, srate |-> srate, reconfig |-> reconfig,
     panic |-> FALSE, log |-> st.log]

Unwind(st, entry) ==
    [Return(st, 0, FALSE) EXCEPT !.panic = TRUE, !.ret = <<>>,
                                 !.log = Append(st.log, entry)]

\* process 2.1.2: how many trailing bytes a missed sync search keeps.
SyncKeep == 4

\* process 2.3.1.1: the sample rate reported with a reconfig event.
ReconfigSrateOfHeader(st, hdr) == hdr.srate

ReconfigSrate(st, hdr) == st.info.srate

\* process 2.3.1.1: info is non-empty.
InfoSet(i) == i.srate # 0 \/ i.channels # 0

\* process 2.1.1: with the sync word at offset i, drop the bytes before it
\* and move the sync word from the buffer into the header's buffer.
SyncSeedKeepGarbage(buf, i) == split_front(buf, Len(FRM_SIGN))

SyncSeed(buf, i) == split_front(split_front(buf, i).rest, Len(FRM_SIGN))

RECURSIVE ProcessLoop(_)

\* process 1: a complete header is held; decode its frame.
DecodeStep(st) ==
    IF Len(st.buffer) < st.asfh.frmbytes THEN Return(st, st.asfh.srate, FALSE)
    ELSE
    LET a == st.asfh
        sp == split_front(st.buffer, a.frmbytes)
        e == ecc_stage(a, sp.front)
        g == digital(a, e.data)
        o == overlap(g.pcm, st.overlap_fragment, a)
        entry == [kind |-> "frame", hdr |-> a, frad |-> sp.front, path |-> e.path,
                  crc_ok |-> (~a.ecc \/ ~crc_mismatch(a, sp.front)),
                  data |-> IF e.panic THEN <<>> ELSE e.data,
                  samples |-> IF e.panic \/ g.panic THEN 0 ELSE Len(g.pcm),
                  ov_before |-> Len(st.overlap_fragment),
                  faded |-> ~e.panic /\ ~g.panic /\ st.overlap_fragment # <<>>,
                  ov_after |-> IF e.panic \/ g.panic \/ o.panic THEN 0 ELSE Len(o.next),
                  panic |-> e.panic \/ g.panic \/ o.panic]
    IN  IF entry.panic THEN Unwind(st, entry)
        ELSE ProcessLoop([st EXCEPT !.buffer = sp.rest,
                                    !.overlap_fragment = o.next,
                                    !.ret = @ \o o.frame,
                                    !.asfh = ASFH_clear(a),
                                    !.log = Append(@, entry)])

\* process 2.2 - 2.3: parse the header and act on the result.
ParseStep(st) ==
    LET rb == read_buf(st.asfh, st.buffer)
        st1 == [st EXCEPT !.asfh = rb.asfh, !.buffer = rb.buffer]
        entry == [kind |-> "hdr", hdr |-> rb.asfh, info_before |-> st.info,
                  ov_before |-> st.overlap_fragment, ret_before |-> st.ret]
        fl == flush(st1)
    IN  CASE rb.status = "incomplete" -> Return(st1, st1.asfh.srate, FALSE)
          [] rb.status = "flush" ->
                Return([st1 EXCEPT !.asfh = fl.d.asfh,
                                   !.overlap_fragment = fl.d.overlap_fragment,
                                   !.ret = @ \o fl.ret,
                                   !.log = Append(@, [entry EXCEPT !.kind = "force"])],
                       fl.d.asfh.srate, FALSE)
          [] OTHER ->
                IF criteq(rb.asfh, st.info)
                THEN ProcessLoop([st1 EXCEPT !.log = Append(@, entry)])
                ELSE IF InfoSet(st.info)
                THEN Return([st1 EXCEPT !.asfh = fl.d.asfh,
                                        !.overlap_fragment = fl.d.overlap_fragment,
                                        !.ret = @ \o fl.ret,
                                        !.info = fl.d.asfh,
                                        !.log = Append(@, entry)],
                            ReconfigSrate(st1, rb.asfh), TRUE)
                ELSE ProcessLoop([st1 EXCEPT !.info = rb.asfh,
                                             !.log = Append(@, entry)])

\* process 2.1: no header in progress; look for the sync word.
AcquireStep(st) ==
    IF starts_with(st.asfh.buffer, FRM_SIGN) THEN ParseStep(st)
    ELSE
    LET i == find_pattern(st.buffer, FRM_SIGN)
        kept == split_front(st.buffer, saturating_sub(Len(st.buffer), SyncKeep)).rest
        seeded == SyncSeed(st.buffer, i)
    IN  IF i < 0
        THEN Return([st EXCEPT !.buffer = kept,
                               !.log = Append(@, [kind |-> "miss", before |-> st.buffer])],
                    st.asfh.srate, FALSE)
        ELSE ParseStep([st EXCEPT !.asfh.buffer = seeded.front, !.buffer = seeded.rest])

ProcessLoop(st) == IF st.asfh.all_set THEN DecodeStep(st) ELSE AcquireStep(st)

\* Decode::process on d with the bytes of one call.
process(d, stream) ==
    ProcessLoop([asfh |-> d.asfh, info |-> d.info, buffer |-> d.buffer \o stream,
                 overlap_fragment |-> d.overlap_fragment, ret |-> <<>>, log |-> <<>>])

(***************************************************************************)
(* Streams: frames as the encoder composes them, and garbage               *)
(***************************************************************************)
\* The header of a frame with configuration c over the wire payload frad.
MkHeader(c, frad) ==
    FRM_SIGN
    \o <<Len(frad),
         c.profile * 32 + (IF c.ecc THEN 16 ELSE 0) + c.bit_depth,
         (c.channels - 1) * 64 + c.sidx * 4 + (IF c.force_flush THEN 1 ELSE 0),
         c.olap>>
    \o (IF c.ecc /\ ~c.force_flush
        THEN <<c.dlen, c.codelen>>
             \o (IF c.profile \in COMPACT THEN crc16_ansi(frad) ELSE crc32(frad))
        ELSE <<>>)

\* A frame: header and payload; hit replaces wire payload bytes (corruption
\* after the checksum was taken), as a function from positions to bytes.
MkFrame(c, data, hit) ==
    LET frad == IF c.ecc THEN encode_rs(data, c.dlen, c.codelen) ELSE data
    IN  [kind |-> "frame",
         bytes |-> MkHeader(c, frad)
                   \o [i \in DOMAIN frad |-> IF i \in DOMAIN hit THEN hit[i] ELSE frad[i]]]

Garbage(bytes) == [kind |-> "garbage", bytes |-> bytes]

CfgBase ==
    [profile |-> 0, ecc |-> FALSE, bit_depth |-> 1, channels |-> 1, sidx |-> 3,
     force_flush |-> FALSE, olap |-> 0, dlen |-> 0, codelen |-> 0]

\* Profile 0, 16 bit, mono, 48000 Hz.
CfgA == CfgBase

\* Profile 0, 16 bit, mono, 22050 Hz.
CfgB == [CfgBase EXCEPT !.sidx = 7]

\* Profile 1, mono, 48000 Hz, overlap 1/2.
CfgC == [CfgBase EXCEPT !.profile = 1, !.bit_depth = 2, !.olap = 2]

\* CfgA protected by Reed-Solomon blocks of 2 data and 2 parity symbols.
CfgE == [CfgBase EXCEPT !.ecc = TRUE, !.dlen = 2, !.codelen = 2]

FrameA == MkFrame(CfgA, <<\h3c, \h00>>, <<>>)

FrameB == MkFrame(CfgB, <<\h38, \h00>>, <<>>)

FrameC == MkFrame(CfgC, <<ZlibMagic, 1, 2>>, <<>>)

FrameE == MkFrame(CfgE, <<1, 2>>, <<>>)

\* FrameE with one payload byte changed on the wire.
FrameE1 == MkFrame(CfgE, <<1, 2>>, <<3>>)

\* A CfgA header announcing a payload of zero bytes.
FrameZ == MkFrame(CfgA, <<>>, <<>>)

\* Profile 1 frames of 5 rows with overlap 1/2 and of 3 rows with overlap 1/3.
FrameC5 == MkFrame(CfgC, <<ZlibMagic, 1, 2, 3, 4, 5>>, <<>>)

FrameC3 == MkFrame([CfgC EXCEPT !.olap = 3], <<ZlibMagic, 1, 2, 3>>, <<>>)

\* CfgA with the ECC flag and blocks of 2 data symbols without parity.
FrameE0 == MkFrame([CfgE EXCEPT !.codelen = 0], <<1, 2>>, <<>>)

\* A header with the force-flush flag.
FrameF == MkFrame([CfgC EXCEPT !.force_flush = TRUE], <<>>, <<>>)

GarbagePlain == Garbage(<<\h00>>)

\* Garbage that ends with the first half of a sync word.
GarbageHalf == Garbage(<<\hff, \hd0>>)

\* Garbage that holds a sync word.
GarbageSync == Garbage(FRM_SIGN)

Bytes(its) == Concat([i \in DOMAIN its |-> its[i].bytes])

\* Sequences over S of length 1..n.
SeqUpTo(S, n) == UNION {[1..k -> S] : k \in 1..n}

(***************************************************************************)
(* The decoder driven by a caller                                          *)
(***************************************************************************)
\* How many items the stream of the general specification is given.
MaxItems == 2

\* Largest partial chunk, in bytes, of the general specification.
MaxChunk == 1

\* Longest stream, in items, of the chunked-feed specification.
MaxFeedItems == 3

Items ==
    {FrameA, FrameB, FrameC, FrameE, FrameE1, FrameZ, FrameF, GarbageHalf,
     FrameC5, FrameC3, FrameE0}

FeedItems == {FrameA, FrameB, FrameC, GarbagePlain, GarbageHalf, GarbageSync}

\* The Decode object as one value.
D == [asfh |-> asfh, info |-> info, buffer |-> buffer,
      overlap_fragment |-> overlap_fragment]

LastNew ==
    [op |-> "new", ret |-> <<>>, srate |-> 0, reconfig |-> FALSE, log |-> <<>>,
     pre |-> Decode_new, prev |-> [op |-> "none", nret |-> 0],
     cut |-> FALSE]

RefNew == [d |-> Decode_new, out |-> <<>>, panic |-> FALSE]

\* Decode::new
InitDecoder ==
    /\ asfh = Decode_new.asfh
    /\ info = Decode_new.info
    /\ buffer = Decode_new.buffer
    /\ overlap_fragment = Decode_new.overlap_fragment
    /\ panicked = FALSE
    /\ pos = 0
    /\ arrived = 0
    /\ last = LastNew
    /\ out = <<>>
    /\ events = <<>>
    /\ ref = RefNew

Init ==
    /\ InitDecoder
    /\ fix_error \in BOOLEAN
    /\ debug_build \in BOOLEAN
    /\ items = <<>>
    /\ fcall = [fn |-> "none", arg |-> <<>>, res |-> <<>>]

\* The decoder after a call that returned r (untouched if the call unwound).
Install(r) ==
    /\ asfh' = IF r.panic THEN asfh ELSE r.d.asfh
    /\ info' = IF r.panic THEN info ELSE r.d.info
    /\ buffer' = IF r.panic THEN buffer ELSE r.d.buffer
    /\ overlap_fragment' = IF r.panic THEN overlap_fragment ELSE r.d.overlap_fragment
    /\ panicked' = r.panic

\* The decoder after a call of flush that returned f.
Flushed(f) ==
    /\ asfh' = f.d.asfh
    /\ info' = f.d.info
    /\ buffer' = f.d.buffer
    /\ overlap_fragment' = f.d.overlap_fragment

Remaining == Len(Bytes(items)) - pos

\* The bytes at offsets lo+1 .. hi of the stream its; with all = FALSE the
\* bytes of garbage items are left out.
RECURSIVE Cut(_, _, _, _)
Cut(its, lo, hi, all) ==
    IF its = <<>> \/ hi <= 0 THEN <<>>
    ELSE (IF all \/ Head(its).kind = "frame"
          THEN SubSeq(Head(its).bytes, Max(lo, 0) + 1, Min(hi, Len(Head(its).bytes)))
          ELSE <<>>)
         \o Cut(Tail(its), lo - Len(Head(its).bytes), hi - Len(Head(its).bytes), all)

NextBytes(n) == Cut(items, pos, pos + n, TRUE)

\* The stream without the items fed completely, and the offset into it.
RECURSIVE Unfed(_, _)
Unfed(its, p) ==
    IF its # <<>> /\ Len(Head(its).bytes) <= p
    THEN Unfed(Tail(its), p - Len(Head(its).bytes))
    ELSE [items |-> its, pos |-> p]

\* The stream's source produces one more item, once the caller has fed all
\* of the stream so far.
Arrive(it) ==
    /\ ~panicked
    /\ arrived < MaxItems
    /\ items = <<>>
    /\ items' = <<it>>
    /\ arrived' = arrived + 1
    /\ UNCHANGED <<asfh, info, buffer, overlap_fragment, fix_error, debug_build,
                   panicked, pos, last, out, events, ref, fcall>>

\* The decoder and the call record after process returned r.
Called(r) ==
    /\ Install(r)
    /\ last' = [LastNew EXCEPT !.op = "process", !.ret = r.ret,
                               !.srate = r.srate, !.reconfig = r.reconfig,
                               !.log = r.log]

\* The caller calls process with the next n bytes of the stream.
Process(n) ==
    /\ ~panicked
    /\ n <= Remaining
    /\ Called(process(D, NextBytes(n)))
    /\ items' = Unfed(items, pos + n).items
    /\ pos' = Unfed(items, pos + n).pos
    /\ UNCHANGED <<fix_error, debug_build, arrived, out, events, ref, fcall>>

\* The source produces one more item before the caller has fed any of the
\* item before, and the caller calls process with both.
ProcessThrough(it) ==
    /\ ~panicked
    /\ arrived < MaxItems
    /\ items # <<>>
    /\ pos = 0
    /\ Called(process(D, NextBytes(Remaining) \o it.bytes))
    /\ items' = <<>>
    /\ pos' = 0
    /\ arrived' = arrived + 1
    /\ UNCHANGED <<fix_error, debug_build, out, events, ref, fcall>>

\* The caller calls flush.
Flush ==
    /\ ~panicked
    /\ Flushed(flush(D))
    /\ last' = [LastNew EXCEPT !.op = "flush", !.ret = flush(D).ret, !.pre = D,
                               !.prev = [op |-> last.op, nret |-> Len(last.ret)]]
    /\ UNCHANGED <<fix_error, debug_build, panicked, items, pos, arrived, out,
                   events, ref, fcall>>

ChunkSizes == (0..MaxChunk) \cup {Remaining}

Next ==
    \/ \E it \in Items : Arrive(it)
    \/ \E it \in Items : ProcessThrough(it)
    \/ \E n \in ChunkSizes : Process(n)
    \/ Flush

Spec == Init /\ [][Next]_vars

\* The completely parsed headers of the last call that were not to force a
\* flush, as places in its log.
Parsed == {i \in DOMAIN last.log : last.log[i].kind = "hdr"}

\* The header at place i of the log was adopted into info: the next header
\* parsed met it there, or it is there now.
Adopted(i) ==
    IF \E j \in (i + 1)..Len(last.log) : last.log[j].kind \in {"hdr", "force"}
    THEN last.log[CHOOSE j \in (i + 1)..Len(last.log) :
                      /\ last.log[j].kind \in {"hdr", "force"}
                      /\ \A k \in (i + 1)..(j - 1) :
                            last.log[k].kind \notin {"hdr", "force"}].info_before
         = last.log[i].hdr
    ELSE info = last.log[i].hdr

\* C3: a completely parsed header that differs from a non-empty info in a
\* critical parameter ends the call: process returns what it had decoded
\* followed by the overlap fragment retained, with reconfig = true and the
\* sample rate info held; a header that meets an empty info is adopted and
\* is not a reconfig event; and reconfig = true is returned in no other case.
C3_Reconfig ==
    (last.op = "process" /\ ~panicked) =>
        /\ \A i \in Parsed :
              criteq(last.log[i].hdr, last.log[i].info_before)
              \/ IF InfoSet(last.log[i].info_before)
                 THEN /\ i = Len(last.log)
                      /\ last.reconfig
                      /\ last.srate = last.log[i].info_before.srate
                      /\ last.ret = last.log[i].ret_before \o last.log[i].ov_before
                 ELSE /\ ~(i = Len(last.log) /\ last.reconfig)
                      /\ Adopted(i)
        /\ last.reconfig =>
              /\ Len(last.log) \in Parsed
              /\ ~criteq(last.log[Len(last.log)].hdr, last.log[Len(last.log)].info_before)
              /\ InfoSet(last.log[Len(last.log)].info_before)

\* One call met both cases: the first header of the stream, at 48000 Hz, was
\* adopted; the header at 22050 Hz after it ended the call with the overlap
\* fragment and the rate 48000.
C3_Witness ==
    /\ last.op = "process"
    /\ ~panicked
    /\ last.reconfig
    /\ last.srate = 48000
    /\ Len(last.log) = 3
    /\ last.log[1].kind = "hdr"
    /\ ~InfoSet(last.log[1].info_before)
    /\ last.log[3].kind = "hdr"
    /\ last.log[3].hdr.srate = 22050
    /\ last.log[3].ov_before # <<>>
    /\ last.ret = last.log[3].ret_before \o last.log[3].ov_before

\* C4: process returns normally, whatever bytes it is given.
C4_ReturnsNormally == last.op = "process" => ~panicked

\* process unwound on a frame with a payload of zero bytes.
C4_Witness ==
    /\ last.op = "process"
    /\ panicked
    /\ last.log[Len(last.log)].kind = "frame"
    /\ last.log[Len(last.log)].frad = <<>>

\* C5: without fix_error, the data of a frame with ECC whose payload does
\* not match the CRC of its header reach the profile decoder as zeros.
C5_CrcDetects ==
    (last.op = "process" /\ ~fix_error) =>
        \A i \in DOMAIN last.log :
            (/\ last.log[i].kind = "frame"
             /\ last.log[i].hdr.ecc
             /\ ~last.log[i].crc_ok
             /\ ~last.log[i].panic)
            => Range(last.log[i].data) \subseteq {0}

\* Without fix_error, the data <<3, 2>> of a frame that did not match its CRC
\* went through unecc to the profile decoder, which made a sample of them.
C5_Witness ==
    /\ last.op = "process"
    /\ ~fix_error
    /\ \E i \in DOMAIN last.log :
          /\ last.log[i].kind = "frame"
          /\ last.log[i].hdr.ecc
          /\ ~last.log[i].crc_ok
          /\ last.log[i].path = "unecc"
          /\ last.log[i].data = <<3, 2>>
          /\ last.log[i].samples = 1

\* C6: flush returns the overlap fragment, leaves it empty and the header
\* cleared, and leaves buffer and info as they were; a flush directly after
\* a flush returns an empty block and leaves the decoder as it was.
C6_Flush ==
    last.op = "flush" =>
        /\ last.ret = last.pre.overlap_fragment
        /\ overlap_fragment = <<>>
        /\ asfh = ASFH_clear(last.pre.asfh)
        /\ asfh = ASFH_new
        /\ buffer = last.pre.buffer
        /\ info = last.pre.info
        /\ last.prev.op = "flush" => (last.ret = <<>> /\ D = last.pre)

\* A flush directly after a flush that returned a fragment, of a decoder
\* that holds unparsed bytes and a configuration.
C6_Witness ==
    /\ last.op = "flush"
    /\ last.prev.op = "flush"
    /\ last.prev.nret > 0
    /\ buffer # <<>>
    /\ InfoSet(info)

\* C10: after process has returned a reconfig event, info holds the critical
\* parameters of the header that set it off.
C10_InfoAdopted ==
    (last.op = "process" /\ ~panicked /\ last.reconfig) =>
        criteq(last.log[Len(last.log)].hdr, info)

\* After the reconfig event of a header at 22050 Hz, info is the empty header.
C10_Witness ==
    /\ last.op = "process"
    /\ last.reconfig
    /\ last.log[Len(last.log)].hdr.srate = 22050
    /\ info = ASFH_new

\* The frames the last call detached from the buffer, as places in its log.
Detached == {i \in DOMAIN last.log : last.log[i].kind = "frame"}

\* The frames the last call decoded.
Decoded == {i \in Detached : ~last.log[i].panic}

\* The header asks for a split of the frame.
Splits(h) == h.profile \in COMPACT /\ h.olap # 0

Missed ==
    /\ last.op = "process"
    /\ ~panicked
    /\ last.log # <<>>
    /\ last.log[Len(last.log)].kind = "miss"

\* C12: a sync search that finds no sync word leaves the last 3 bytes of the
\* buffer (all of a shorter one) and process returns.
C12_KeepsLastThree ==
    Missed =>
        LET before == last.log[Len(last.log)].before
        IN  buffer = Drop(before, saturating_sub(Len(before), 3))

\* A sync search missed in a buffer of 4 bytes or more and 4 bytes are left.
C12_Witness ==
    /\ Missed
    /\ Len(last.log[Len(last.log)].before) >= 4
    /\ Len(buffer) = 4

C18_CrossFadeInRange ==
    last.op = "process" =>
        \A i \in Detached :
            last.log[i].faded =>
                (last.log[i].samples >= last.log[i].ov_before /\ ~last.log[i].panic)

\* A frame of fewer rows than the overlap fragment was cross-faded and the
\* call unwound.
C18_Witness ==
    /\ last.op = "process"
    /\ panicked
    /\ \E i \in Detached :
          /\ last.log[i].faded
          /\ last.log[i].samples < last.log[i].ov_before
          /\ last.log[i].samples > 0

(***************************************************************************)
(* Chunked feed: the caller feeds a stream in chunks of any sizes to the   *)
(* decoder, collects what process returns, and ends with flush.  Beside    *)
(* it the decoder ref gets each chunk without its garbage bytes.           *)
(***************************************************************************)
InitFeed ==
    /\ InitDecoder
    /\ fix_error = FALSE
    /\ debug_build = FALSE
    /\ items \in SeqUpTo(FeedItems, MaxFeedItems)
    /\ fcall = [fn |-> "none", arg |-> <<>>, res |-> <<>>]

\* What the caller collects from a returned call.
Collect(r) ==
    /\ out' = IF r.panic THEN out ELSE out \o r.ret
    /\ events' = IF ~r.panic /\ r.reconfig THEN Append(events, r.srate) ELSE events

\* The decoder and the caller's collection after a call that returned r.
Fed(r) == Install(r) /\ Collect(r)

\* The decoder rf and what it has returned after a call that returned r.
RefFed(rf, r) ==
    [d |-> IF r.panic THEN rf.d ELSE r.d,
     out |-> IF r.panic THEN rf.out ELSE rf.out \o r.ret,
     panic |-> rf.panic \/ r.panic]

\* Offset p lies between two garbage bytes of the stream.
CutsGarbage(p) ==
    /\ p \in 1..(Len(Bytes(items)) - 1)
    /\ Cut(items, p - 1, p + 1, FALSE) = <<>>

\* The caller calls process with the next n bytes of the stream.
Feed(n) ==
    /\ ~panicked
    /\ last.op # "finish"
    /\ n <= Remaining
    /\ Fed(process(D, NextBytes(n)))
    /\ ref' = RefFed(ref, process(ref.d, Cut(items, pos, pos + n, FALSE)))
    /\ pos' = pos + n
    /\ last' = [last EXCEPT !.op = "feed", !.cut = @ \/ CutsGarbage(pos + n)]
    /\ UNCHANGED <<fix_error, debug_build, items, arrived, fcall>>

\* With the stream fed, the caller calls flush and stops.
Finish ==
    /\ ~panicked
    /\ last.op # "finish"
    /\ Remaining = 0
    /\ Flushed(flush(D))
    /\ out' = out \o flush(D).ret
    /\ ref' = [ref EXCEPT !.d = flush(ref.d).d, !.out = @ \o flush(ref.d).ret]
    /\ last' = [last EXCEPT !.op = "finish"]
    /\ UNCHANGED <<fix_error, debug_build, panicked, items, pos, arrived, events, fcall>>

NextFeed ==
    \/ \E n \in 1..Remaining : Feed(n)
    \/ Finish

SpecFeed == InitFeed /\ [][NextFeed]_vars

\* One call of process on a new decoder, then flush: what the caller gets.
SingleShotOf(r) ==
    [panic |-> r.panic,
     out |-> r.ret \o flush(r.d).ret,
     events |-> IF r.reconfig THEN <<r.srate>> ELSE <<>>]

SingleShot(bytes) == SingleShotOf(process(Decode_new, bytes))

\* C1: once the chunks of a stream have been fed in order and flush called,
\* the PCM collected and the sample rates of the reconfig events are those
\* of a single process call on the whole stream followed by flush.
C1_PartialFeed ==
    last.op = "finish" =>
        /\ out = SingleShot(Bytes(items)).out
        /\ events = SingleShot(Bytes(items)).events

\* Fed in chunks, the frames at 48000, 22050 and 48000 Hz gave the first and
\* the third frame's PCM; a single call gives the first frame's only.
C1_Witness ==
    /\ last.op = "finish"
    /\ items = <<FrameA, FrameB, FrameA>>
    /\ Len(out) = 2
    /\ events = <<48000>>
    /\ Len(SingleShot(Bytes(items)).out) = 1

\* The offsets at which the frames of the stream its start.
FrameStarts(its) ==
    {Len(Bytes(SubSeq(its, 1, i - 1))) : i \in {j \in DOMAIN its : its[j].kind = "frame"}}

\* The sync word occurs in the stream only where a frame starts.
SyncOnlyAtFrames(its) == PatternAt(Bytes(its), FRM_SIGN) \subseteq FrameStarts(its)

\* The stream is frames with garbage only between them.
GarbageBetween(its) == its[1].kind = "frame" /\ its[Len(its)].kind = "frame"

\* C2 as stated: whatever the garbage between the frames, the PCM of the
\* stream fed with it is the PCM of the frames fed without it.
C2_AnyGarbage == (last.op = "finish" /\ GarbageBetween(items)) => out = ref.out

\* C2: when the sync word occurs in the stream of frames and garbage between
\* them only at the starts of the frames, then for every partition of the stream into chunks, process over
\* the chunks and then flush yield the PCM that they yield over the same
\* chunks without their garbage bytes.
C2_FramingResilience ==
    (last.op = "finish" /\ GarbageBetween(items) /\ SyncOnlyAtFrames(items))
        => out = ref.out

\* Garbage with half a sync word stood between two frames, a chunk ended
\* inside it, and PCM came out.
C2_Witness ==
    /\ last.op = "finish"
    /\ SyncOnlyAtFrames(items)
    /\ Len(items) = 3
    /\ items[1].kind = "frame"
    /\ items[2] = GarbageHalf
    /\ items[3].kind = "frame"
    /\ last.cut
    /\ Len(out) = 2
    /\ out = ref.out

\* The decoder has a header in progress.
HeaderInProgress == starts_with(asfh.buffer, FRM_SIGN) \/ asfh.all_set

\* C13: at every return from process or flush, a buffer that contains a
\* complete sync word belongs to a decoder with a header in progress.
C13_NoUnparsedSync ==
    (last.op \in {"feed", "finish"} /\ ~panicked) =>
        (PatternAt(buffer, FRM_SIGN) # {} => HeaderInProgress)

\* process has returned a reconfig event with a whole frame left in the
\* buffer and no header in progress.
C13_Witness ==
    /\ last.op = "feed"
    /\ ~panicked
    /\ events # <<>>
    /\ PatternAt(buffer, FRM_SIGN) # {}
    /\ ~HeaderInProgress

\* A frame that decodes on its own and retains no overlap.
Standalone(it) ==
    /\ it.kind = "frame"
    /\ ~process(Decode_new, it.bytes).panic
    /\ flush(process(Decode_new, it.bytes).d).ret = <<>>

\* C17: of a stream of well-formed frames, fed and flushed, every frame's PCM
\* has been emitted exactly once and in stream order, also across changes of
\* the critical parameters.
C17_EveryFrameOnce ==
    (last.op = "finish" /\ ~panicked /\ \A i \in DOMAIN items : Standalone(items[i])) =>
        out = Concat([i \in DOMAIN items |-> SingleShot(items[i].bytes).out])

\* A 48000 Hz frame and a 22050 Hz frame were fed and flushed; the reconfig
\* event was returned and the PCM of the second frame was not.
C17_Witness ==
    /\ last.op = "finish"
    /\ items = <<FrameA, FrameB>>
    /\ events = <<48000>>
    /\ out = SingleShot(FrameA.bytes).out
    /\ buffer # <<>>

(***************************************************************************)
(* Calls of the pure functions: fcall holds the argument of one call and,  *)
(* once the function has been called, its name and its result; the Decode  *)
(* object stays as constructed.                                            *)
(***************************************************************************)
callerVars == <<asfh, info, buffer, overlap_fragment, fix_error, debug_build,
                panicked, items, pos, arrived, last, out, events, ref>>

\* The state before the call on one of args.
InitCall(args) ==
    /\ InitDecoder
    /\ fix_error = FALSE
    /\ items = <<>>
    /\ fcall \in {[fn |-> "none", arg |-> a, res |-> <<>>] : a \in args}

\* The function fn is called on the argument and returns res.
Call(fn, res) ==
    /\ fcall.fn = "none"
    /\ fcall' = [fn |-> fn, arg |-> fcall.arg, res |-> res]
    /\ UNCHANGED callerVars

\* Sequences over S of length 0..n.
SeqWithin(S, n) == UNION {[1..k -> S] : k \in 0..n}

(***************************************************************************)
(* common.rs: crc32 and crc16_ansi called on byte strings                 *)
(***************************************************************************)
\* The ASCII bytes "123456789".
CheckString == <<\h31, \h32, \h33, \h34, \h35, \h36, \h37, \h38, \h39>>

\* Longest byte string, besides the pieces of CheckString, the checksums get.
MaxCrcLen == 3

CrcBytes == {\h00, \h01, \h80, \hff}

CrcInputs ==
    SeqWithin(CrcBytes, MaxCrcLen)
    \cup {SubSeq(CheckString, i, j) : i, j \in DOMAIN CheckString}

CallCrc32 == Call("crc32", crc32(fcall.arg))

CallCrc16 == Call("crc16_ansi", crc16_ansi(fcall.arg))

NextCrc == CallCrc32 \/ CallCrc16

SpecCrc == InitCall(CrcInputs) /\ debug_build = FALSE /\ [][NextCrc]_vars

\* C8: crc32 of the ASCII bytes "123456789" is CB F4 39 26 and crc16_ansi of
\* the same bytes is BB 3D, both most significant byte first.
C8_CrcVectors ==
    fcall.arg = CheckString =>
        /\ fcall.fn = "crc32" => fcall.res = <<\hcb, \hf4, \h39, \h26>>
        /\ fcall.fn = "crc16_ansi" => fcall.res = <<\hbb, \h3d>>

\* crc16_ansi has been called on "123456789" and returned two bytes.
C8_Witness ==
    fcall.fn = "crc16_ansi" /\ fcall.arg = CheckString /\ Len(fcall.res) = 2

(***************************************************************************)
(* tools/ecc: decode_rs called on byte strings made of blocks              *)
(***************************************************************************)
\* How many whole blocks the input of decode_rs holds at most.
MaxRsBlocks == 3

\* (dlen, codelen) of the calls.
RsRatios == {<<2, 2>>, <<1, 2>>, <<0, 0>>}

\* Blocks of 2 data and 2 parity bytes: two code words, a code word with one
\* byte changed, and words that no code word is within one byte of.
RsBlocks ==
    {rs_encode(<<1, 2>>, 2), rs_encode(<<3, 4>>, 2), <<3, 2, 1, 2>>,
     <<3, 5, 1, 2>>, <<0, 0, 1, 2>>}

\* What follows the whole blocks: nothing, or a shorter piece.
RsTails == {<<>>, <<1, 2, 1>>, <<0, 0, 0>>, <<7>>}

RsInputs ==
    {[data |-> Concat(bs) \o t, ratio |-> r] :
        bs \in SeqWithin(RsBlocks, MaxRsBlocks), t \in RsTails, r \in RsRatios}

CallDecodeRs ==
    Call("decode_rs", decode_rs(fcall.arg.data, fcall.arg.ratio[1], fcall.arg.ratio[2]))

CallUnecc ==
    Call("unecc", unecc(fcall.arg.data, fcall.arg.ratio[1], fcall.arg.ratio[2],
                        debug_build))

NextRs == CallDecodeRs \/ CallUnecc

SpecRs == InitCall(RsInputs) /\ debug_build \in BOOLEAN /\ [][NextRs]_vars

\* The k-th block of bs bytes of data (the last one may be shorter).
BlockOf(data, k, bs) == SubSeq(data, (k - 1) * bs + 1, Min(k * bs, Len(data)))

BlockCount(data, bs) == (Len(data) + bs - 1) \div bs

\* C7: decode_rs yields, block by block in order, the decoded data of each
\* block of dlen+codelen bytes that Reed-Solomon decodes and dlen zero bytes
\* for each block that fails, whatever the other blocks are.
C7_DecodeRsBlocks ==
    (fcall.fn = "decode_rs" /\ fcall.arg.ratio[1] + fcall.arg.ratio[2] > 0) =>
        LET dlen == fcall.arg.ratio[1]
            codelen == fcall.arg.ratio[2]
            data == fcall.arg.data
        IN  /\ ~fcall.res.panic
            /\ fcall.res.data =
                 Concat([k \in 1..BlockCount(data, dlen + codelen) |->
                    IF rs_decode(BlockOf(data, k, dlen + codelen), codelen).ok
                    THEN rs_decode(BlockOf(data, k, dlen + codelen), codelen).data
                    ELSE [i \in 1..dlen |-> 0]])

\* decode_rs was called on a failing block between a corrected block and a
\* clean one, and the failing block came out as two zero bytes.
C7_Witness ==
    /\ fcall.fn = "decode_rs"
    /\ fcall.arg = [data |-> <<3, 2, 1, 2>> \o <<3, 5, 1, 2>> \o rs_encode(<<3, 4>>, 2),
                    ratio |-> <<2, 2>>]
    /\ fcall.res.data = <<1, 2, 0, 0, 3, 4>>

(***************************************************************************)
(* p1tools: i64 arithmetic.  An i64 is its 8 bytes in two's complement,    *)
(* most significant first (to_be_bytes).  An operation that can overflow   *)
(* yields [v |-> the wrapped result, of |-> whether it overflowed]: with   *)
(* overflow checks the overflow is a panic, without them the wrapped       *)
(* result stands.                                                          *)
(***************************************************************************)
I64Bytes == 8

I64Width == 8 * I64Bytes

\* The i64 of a natural number below 2^31.
I64(n) ==
    Evaluated([i \in 1..I64Bytes |->
                  IF i <= I64Bytes - 4 THEN 0
                  ELSE (n \div (2 ^ (8 * (I64Bytes - i)))) % 256])

\* 1 << e for e in 0..63.
I64Pow2(e) ==
    Evaluated([i \in 1..I64Bytes |->
                  IF i = I64Bytes - (e \div 8) THEN 2 ^ (e % 8) ELSE 0])

I64Zero == Zeros(I64Bytes)

I64Min == I64Pow2(I64Width - 1)

I64Max == <<127>> \o [i \in 1..(I64Bytes - 1) |-> 255]

NotBytes(a) == Evaluated([i \in DOMAIN a |-> 255 - a[i]])

\* The carry into byte i of a + b + c: some byte p to its right overflows by
\* itself (or p is the carry in c, right of the last byte), and every byte
\* between passes a carry on.
CarryInto(a, b, c, i) ==
    \E p \in (i + 1)..(Len(a) + 1) :
        /\ IF p = Len(a) + 1 THEN c = 1 ELSE a[p] + b[p] >= 256
        /\ \A q \in (i + 1)..(p - 1) : a[q] + b[q] = 255

\* The bytes of a + b + c, wrapping.
AddBytes(a, b, c) ==
    Evaluated([i \in 1..Len(a) |->
                  (a[i] + b[i] + (IF CarryInto(a, b, c, i) THEN 1 ELSE 0)) % 256])

I64Negative(a) == a[1] >= 128

\* The sum of a and b, which overflowed iff their signs agree and its differs.
I64Sum(a, b, sum) ==
    [v |-> sum,
     of |-> I64Negative(a) = I64Negative(b) /\ I64Negative(sum) # I64Negative(a)]

\* a + b
I64Add(a, b) == I64Sum(a, b, AddBytes(a, b, 0))

\* a - b
I64Sub(a, b) == I64Sum(a, NotBytes(b), AddBytes(a, NotBytes(b), 1))

\* -a
I64Neg(a) == [v |-> AddBytes(I64Zero, NotBytes(a), 1), of |-> a = I64Min]

\* a << 1 (a shift never overflows)
I64Shl1(a) == AddBytes(a, a, 0)

\* a >> 1 (arithmetic)
I64Shr1(a) ==
    Evaluated([i \in 1..I64Bytes |->
                  (a[i] \div 2) + 128 * (IF i = 1 THEN a[1] \div 128 ELSE a[i - 1] % 2)])

I64Positive(a) == ~I64Negative(a) /\ a # I64Zero

\* a < b, signed
I64Less(a, b) == I64Negative(I64Sub(a, b).v) # I64Sub(a, b).of

\* The bits from the first one on: skip_while(|&x| !x).
skip_zeros(bits) ==
    IF \A i \in DOMAIN bits : bits[i] = 0 THEN <<>>
    ELSE SubSeq(bits,
                CHOOSE j \in DOMAIN bits :
                    bits[j] = 1 /\ \A i \in 1..(j - 1) : bits[i] = 0,
                Len(bits))

\* (dmax as f64).log2().ceil() for dmax > 0: the least k with 2^k >= dmax.
\* The conversion to f64 and log2 give exactly this for the magnitudes used
\* here (below 2^53, a power of two, or 2^63 - 1, which rounds to 2^63).
CeilLog2(a) ==
    IF skip_zeros(to_bits(a)) = <<1>> \o Zeros(Len(skip_zeros(to_bits(a))) - 1)
    THEN Len(skip_zeros(to_bits(a))) - 1
    ELSE Len(skip_zeros(to_bits(a)))

(***************************************************************************)
(* p1tools: exp_golomb_encode and exp_golomb_decode                        *)
(***************************************************************************)
\* x.abs()
I64Abs(a) == IF I64Negative(a) THEN I64Neg(a) ELSE [v |-> a, of |-> FALSE]

\* iter().max() of a non-empty sequence
RECURSIVE I64MaxOf(_)
I64MaxOf(vs) ==
    IF Len(vs) = 1 THEN vs[1]
    ELSE IF I64Less(I64MaxOf(Tail(vs)), vs[1]) THEN vs[1]
    ELSE I64MaxOf(Tail(vs))

\* exp_golomb_encode: the order k of the code.
GolombK(data) ==
    IF I64Positive(I64MaxOf(Evaluated([i \in DOMAIN data |-> I64Abs(data[i]).v])))
    THEN CeilLog2(I64MaxOf(Evaluated([i \in DOMAIN data |-> I64Abs(data[i]).v])))
    ELSE 0

\* if n > 0 { (n << 1) - 1 } else { -n << 1 }
GolombFold(n) ==
    IF I64Positive(n) THEN I64Sub(I64Shl1(n), I64(1))
    ELSE [v |-> I64Shl1(I64Neg(n).v), of |-> I64Neg(n).of]

\* ... + (1 << k)
GolombX(f, k) == [v |-> I64Add(f.v, I64Pow2(k)).v, of |-> f.of \/ I64Add(f.v, I64Pow2(k)).of]

\* The code word of x: code.len() - (k + 1) zeros, then code.  A code shorter
\* than k + 1 bits underflows the count of zeros.
GolombCode(x, code, k, checks) ==
    IF (checks /\ x.of) \/ Len(code) < k + 1 THEN [panic |-> TRUE, bits |-> <<>>]
    ELSE [panic |-> FALSE, bits |-> Zeros(Len(code) - (k + 1)) \o code]

GolombWord(n, k, checks) ==
    GolombCode(GolombX(GolombFold(n), k), skip_zeros(to_bits(GolombX(GolombFold(n), k).v)),
               k, checks)

\* The bytes of the order and the code words, or the panic of one of them.
GolombPacked(k, words) ==
    IF \E i \in DOMAIN words : words[i].panic THEN [panic |-> TRUE, data |-> <<>>]
    ELSE [panic |-> FALSE,
          data |-> to_bytes(NatToBits(k, 8)
                            \o Concat(Evaluated([i \in DOMAIN words |-> words[i].bits])))]

exp_golomb_encode(data, checks) ==
    IF data = <<>> THEN [panic |-> FALSE, data |-> <<0>>]
    ELSE IF checks /\ \E i \in DOMAIN data : I64Abs(data[i]).of
    THEN [panic |-> TRUE, data |-> <<>>]
    ELSE GolombPacked(GolombK(data),
                      Evaluated([i \in DOMAIN data |->
                                    GolombWord(data[i], GolombK(data), checks)]))

\* data[idx..].iter().position(|&x| x).unwrap_or(data.len())
FirstOne(bits, idx) ==
    IF \E j \in (idx + 1)..Len(bits) : bits[j] = 1
    THEN (CHOOSE j \in (idx + 1)..Len(bits) :
             bits[j] = 1 /\ \A i \in (idx + 1)..(j - 1) : bits[i] = 0) - (idx + 1)
    ELSE Len(bits)

\* exp_golomb_decode's loop from idx on: the code words cut out of bits.
RECURSIVE GolombSplit(_, _, _)
GolombSplit(bits, idx, k) ==
    IF idx >= Len(bits) \/ FirstOne(bits, idx) = Len(bits)
    THEN [panic |-> FALSE, cache |-> <<>>]
    ELSE IF \/ idx + Min(2 * FirstOne(bits, idx) + k + 1, Len(bits)) > Len(bits)
            \/ idx + FirstOne(bits, idx)
                  > idx + Min(2 * FirstOne(bits, idx) + k + 1, Len(bits))
    THEN [panic |-> TRUE, cache |-> <<>>]
    ELSE [panic |-> GolombSplit(bits, idx + 2 * FirstOne(bits, idx) + k + 1, k).panic,
          cache |-> <<SubSeq(bits, idx + FirstOne(bits, idx) + 1,
                             idx + Min(2 * FirstOne(bits, idx) + k + 1, Len(bits)))>>
                    \o GolombSplit(bits, idx + 2 * FirstOne(bits, idx) + k + 1, k).cache]

\* fold(0_i64, |acc, bit| (acc << 1) | bit): the last 64 bits of the code word.
I64Fold(cw) ==
    to_bytes(IF Len(cw) >= I64Width THEN SubSeq(cw, Len(cw) - I64Width + 1, Len(cw))
             ELSE Zeros(I64Width - Len(cw)) \o cw)

\* if n & 1 == 1 { (n + 1) >> 1 } else { -(n >> 1) }
GolombUnfold(n) ==
    IF n.v[I64Bytes] % 2 = 1
    THEN [v |-> I64Shr1(I64Add(n.v, I64(1)).v), of |-> n.of \/ I64Add(n.v, I64(1)).of]
    ELSE [v |-> I64Neg(I64Shr1(n.v)).v, of |-> n.of \/ I64Neg(I64Shr1(n.v)).of]

GolombValue(cw, kx) == GolombUnfold(I64Sub(I64Fold(cw), kx))

\* The values of the code words, or the panic of the loop or of one of them.
GolombUnpacked(split, values, checks) ==
    IF split.panic \/ (checks /\ \E i \in DOMAIN values : values[i].of)
    THEN [panic |-> TRUE, data |-> <<>>]
    ELSE [panic |-> FALSE, data |-> Evaluated([i \in DOMAIN values |-> values[i].v])]

GolombValues(split, kx, checks) ==
    GolombUnpacked(split,
                   Evaluated([i \in DOMAIN split.cache |->
                                 GolombValue(split.cache[i], kx)]),
                   checks)

\* exp_golomb_decode.  data[0] of no bytes panics; 1 << k for k >= 64 panics
\* with overflow checks and shifts by k % 64 without.
exp_golomb_decode(data, checks) ==
    IF data = <<>> \/ (checks /\ data[1] >= I64Width) THEN [panic |-> TRUE, data |-> <<>>]
    ELSE GolombValues(GolombSplit(to_bits(Tail(data)), 0, data[1]),
                      I64Pow2(data[1] % I64Width), checks)

\* exp_golomb_decode(exp_golomb_encode(data))
GolombThere(enc, checks) ==
    IF enc.panic THEN [panic |-> TRUE, enc |-> <<>>, data |-> <<>>]
    ELSE [enc |-> enc.data] @@ exp_golomb_decode(enc.data, checks)

GolombRoundTrip(data, checks) == GolombThere(exp_golomb_encode(data, checks), checks)

\* Longest sequence of values the round trip gets.
MaxGolombLen == 2

\* Small values of both signs and values of the largest magnitudes.
GolombInts ==
    {I64(0), I64(1), I64Neg(I64(1)).v, I64(2), I64Neg(I64(2)).v, I64(3),
     I64Neg(I64(5)).v, I64Pow2(61), I64Pow2(62), I64Neg(I64Pow2(62)).v,
     I64Max, I64Min}

GolombInputs == SeqWithin(GolombInts, MaxGolombLen)

CallGolomb == Call("exp_golomb", GolombRoundTrip(fcall.arg, debug_build))

NextGolomb == CallGolomb

SpecGolomb == InitCall(GolombInputs) /\ debug_build \in BOOLEAN /\ [][NextGolomb]_vars

\* C9: decoding the encoding of any sequence of i64 values gives the sequence
\* back, and neither function panics.
C9_GolombRoundTrip ==
    fcall.fn = "exp_golomb" => ~fcall.res.panic /\ fcall.res.data = fcall.arg

\* Without overflow checks, 2^62 came back as -2^62.
C9_Witness ==
    /\ fcall.fn = "exp_golomb"
    /\ ~debug_build
    /\ fcall.arg = <<I64Pow2(62)>>
    /\ ~fcall.res.panic
    /\ fcall.res.data = <<I64Neg(I64Pow2(62)).v>>

(***************************************************************************)
(* decode.rs: the loop of decode, not playing.  Each pass reads a chunk,   *)
(* leaves the loop when the chunk is empty and the decoder's buffer is     *)
(* empty, and calls process on the chunk otherwise; after the loop the     *)
(* final flush is written.                                                 *)
(***************************************************************************)
\* Size of the read buffer.
ReadSize == 32768

\* Longest input, in items, of the loop.
MaxDriverItems == 2

\* The frame it without its last byte.
Truncated(it) == [kind |-> "frame", bytes |-> SubSeq(it.bytes, 1, Len(it.bytes) - 1)]

DriverItems ==
    {FrameA, FrameB, FrameC, FrameE, GarbagePlain, GarbageHalf, Truncated(FrameA)}

InitDriver ==
    /\ InitDecoder
    /\ fix_error \in BOOLEAN
    /\ debug_build = FALSE
    /\ items \in SeqUpTo(DriverItems, MaxDriverItems)
    /\ fcall = [fn |-> "none", arg |-> <<>>, res |-> <<>>]

\* What read_exact returns: the buffer filled, or what is left of the input.
readlen == Min(ReadSize, Remaining)

\* let readlen = common::read_exact(&mut readfile, &mut buf)
DriverRead ==
    /\ ~panicked
    /\ last.op \in {"new", "process"}
    /\ last' = [LastNew EXCEPT !.op = "read"]
    /\ UNCHANGED <<asfh, info, buffer, overlap_fragment, fix_error, debug_build,
                   panicked, items, pos, arrived, out, events, ref, fcall>>

\* The test that leaves the loop.
DriverDone == readlen = 0 /\ buffer = <<>>

\* break, and the final flush is written.
DriverExit ==
    /\ ~panicked
    /\ last.op = "read"
    /\ DriverDone
    /\ Flushed(flush(D))
    /\ out' = out \o flush(D).ret
    /\ last' = [LastNew EXCEPT !.op = "exit", !.ret = flush(D).ret, !.pre = D]
    /\ UNCHANGED <<fix_error, debug_build, panicked, items, pos, arrived, events,
                   ref, fcall>>

\* decoder.process(buf[..readlen].to_vec()), and the PCM is written.
DriverProcess ==
    /\ ~panicked
    /\ last.op = "read"
    /\ ~DriverDone
    /\ Fed(process(D, NextBytes(readlen)))
    /\ pos' = pos + readlen
    /\ last' = [LastNew EXCEPT !.op = "process", !.pre = D, !.cut = (readlen = 0)]
    /\ UNCHANGED <<fix_error, debug_build, items, arrived, ref, fcall>>

NextDriver == DriverRead \/ DriverExit \/ DriverProcess

\* A step of the loop is possible: every step changes last.op, DriverRead is
\* possible after "new" and "process", and one of DriverExit and DriverProcess
\* after "read".
DriverEnabled == ~panicked /\ last.op # "exit"

\* Weak fairness of the loop, WF_vars(NextDriver), with ENABLED <<NextDriver>>_vars
\* written out as DriverEnabled.
DriverFair == []<>(~DriverEnabled) \/ []<><<NextDriver>>_vars

\* The loop runs on as long as it can: the thread is never suspended for good.
SpecDriver == InitDriver /\ [][NextDriver]_vars /\ WF_vars(DriverRead) /\ DriverFair

\* C19: for every finite input the loop is left and the final flush written.
C19_Terminates == <>(last.op = "exit")

\* With the input read to its end, process was called on an empty chunk and
\* left the decoder, its buffer not empty, exactly as it was before the call.
C19_Witness ==
    /\ last.op = "process"
    /\ last.cut
    /\ ~panicked
    /\ Remaining = 0
    /\ buffer # <<>>
    /\ last.pre = D

(***************************************************************************)
(* u8pack.rs: pack and unpack called on float arrays.  A float is given by *)
(* the octets of its IEEE encoding at the width of the depth, most         *)
(* significant first: the f16 of f16::from_f64(x) for the depths 12 and    *)
(* 16, the f32 of `x as f32` for 24 and 32, the f64 for 48 and 64.         *)
(***************************************************************************)
\* Width in bits of the float type the depth is stored in; 0 for a depth
\* that none of the branches takes.
PackWidth(bits) ==
    IF bits \in {12, 16} THEN 16
    ELSE IF bits \in {24, 32} THEN 32
    ELSE IF bits \in {48, 64} THEN 64
    ELSE 0

Reverse(s) == Evaluated([i \in 1..Len(s) |-> s[Len(s) + 1 - i]])

\* if bits % 8 != 0 { be = true }
ForcedBe(bits, be) == be \/ bits % 8 # 0

\* to_be_bytes / to_le_bytes of an encoding, and from_be_bytes / from_le_bytes
\* of its octets.
FloatBytes(enc, be) == IF be THEN enc ELSE Reverse(enc)

\* cut_float3s
cut_float3s(bstr, bits) ==
    LET cs == chunks(bstr, (bits * 4) \div 3)
    IN  Concat([i \in DOMAIN cs |-> Take(cs[i], bits)])

\* pack
pack(input, bits, be) ==
    LET b == ForcedBe(bits, be)
        bytes == IF PackWidth(bits) = 0 THEN <<>>
                 ELSE Concat([i \in DOMAIN input |-> FloatBytes(input[i], b)])
    IN  IF bits % 3 = 0 THEN to_bytes(cut_float3s(to_bits(bytes), bits)) ELSE bytes

\* pad_float3s
pad_float3s(bstr, bits) ==
    LET cs == chunks(bstr, bits)
    IN  Concat([i \in DOMAIN cs |-> cs[i] \o Zeros(bits \div 3)])

\* unpack; try_into().unwrap() panics on a chunk that is not a whole float.
unpack(input, bits, be) ==
    LET b == ForcedBe(bits, be)
        bitstrm == to_bits(input)
        kept == Take(bitstrm, Len(bitstrm) - (Len(bitstrm) % bits))
        bytes == IF bits % 3 = 0 THEN to_bytes(pad_float3s(kept, bits)) ELSE input
        w == PackWidth(bits) \div 8
        cs == IF w = 0 THEN <<>> ELSE chunks(bytes, w)
    IN  IF \E i \in DOMAIN cs : Len(cs[i]) # w
        THEN [panic |-> TRUE, vec |-> <<>>]
        ELSE [panic |-> FALSE, vec |-> Evaluated([i \in DOMAIN cs |-> FloatBytes(cs[i], b)])]

\* pack, then unpack of what it returned, with the same depth and endianness.
PackRoundTrip(a) ==
    LET wire == pack(a.input, a.bits, a.be)
        back == unpack(wire, a.bits, a.be)
    IN  [wire |-> wire, panic |-> back.panic, vec |-> back.vec]

\* Longest float array.
MaxPackLen == 2

\* First and last octets of the floats: none gives an infinity or a NaN.
PackOctets == {63, 129, 240}

\* An encoding of w bits with first octet hi, last octet lo and the octets
\* 22, 33, 44, .. (hexadecimal) between them.
PackWord(w, hi, lo) ==
    Evaluated([i \in 1..(w \div 8) |->
                  IF i = 1 THEN hi ELSE IF i = w \div 8 THEN lo ELSE 17 * i])

PackWords(bits) == {PackWord(PackWidth(bits), hi, lo) : hi \in PackOctets, lo \in PackOctets}

PackInputs ==
    UNION {{[input |-> v, bits |-> bits, be |-> be] :
               v \in SeqWithin(PackWords(bits), MaxPackLen), be \in BOOLEAN} :
           bits \in {12, 24, 48}}

CallPack == Call("pack", PackRoundTrip(fcall.arg))

NextPack == CallPack

SpecPack == InitCall(PackInputs) /\ debug_build = FALSE /\ [][NextPack]_vars

\* The leading b bits of an encoding.
LeadingBits(enc, bits) == Take(to_bits(enc), bits)

\* What the wire holds and what unpack returns when the b leading bits of
\* every value are kept and its b/3 lowest bits dropped.
LeadingBitsKept(a, res) ==
    /\ res.wire = to_bytes(Concat([i \in DOMAIN a.input |-> LeadingBits(a.input[i], a.bits)]))
    /\ ~res.panic
    /\ res.vec = Evaluated([i \in DOMAIN a.input |->
                     to_bytes(LeadingBits(a.input[i], a.bits) \o Zeros(a.bits \div 3))])

\* C15: at the depths 12, 24 and 48, whatever endianness is requested, the
\* wire holds the leading b bits of every value's encoding at the next larger
\* width, and unpack(pack(x)) returns as many values, each with only its b/3
\* lowest bits zeroed.
C15_PackRoundTrip == fcall.fn = "pack" => LeadingBitsKept(fcall.arg, fcall.res)

\* A 24 bit float packed little-endian: the wire holds the three low octets
\* of the f32 3F 22 33 F0, and F0 33 22 00 read little-endian came back.
C15_Witness ==
    /\ fcall.fn = "pack"
    /\ fcall.arg = [input |-> <<PackWord(32, 63, 240)>>, bits |-> 24, be |-> FALSE]
    /\ fcall.res.wire = <<240, 51, 34>>
    /\ ~fcall.res.panic
    /\ fcall.res.vec = <<<<0, 34, 51, 240>>>>

(***************************************************************************)
(* fourier/mod.rs: analogue called on the largest magnitude of the DCT     *)
(* coefficients, a finite f64 2^exp (frac false) or between 2^exp and      *)
(* 2^(exp+1) (frac true), and on the requested depth.                      *)
(***************************************************************************)
FLOAT_DR == <<5, 5, 8, 8, 11, 11>>

\* DEPTHS.iter().position(|&x| x == bits).unwrap(), counted from 0.
Position(s, x) == (CHOOSE i \in 1..Len(s) : s[i] = x /\ \A j \in 1..(i - 1) : s[j] # x) - 1

\* 2.0f64.powi(FLOAT_DR[bx] as i32 - 1) as i32: the exponent of the limit of
\* the index bx.  The limit 2^1024 is the f64 infinity.
DrExp(bx) == 2 ^ (FLOAT_DR[bx + 1] - 1)

\* max |coefficient| > 2^e
Exceeds(m, e) == m.exp > e \/ (m.exp = e /\ m.frac)

\* while max > limit of bx { if bx == DEPTHS.len() { panic } bx += 1 }: the
\* index the loop ends on, or the panic it ends with.  FLOAT_DR[bx] is read
\* before bx is compared with DEPTHS.len().
RECURSIVE Escalate(_, _)
Escalate(m, bx) ==
    IF bx >= Len(FLOAT_DR) THEN [panic |-> "index", bx |-> bx]
    ELSE IF ~Exceeds(m, DrExp(bx)) THEN [panic |-> "none", bx |-> bx]
    ELSE IF bx = Len(DEPTHS) THEN [panic |-> "overflow", bx |-> bx]
    ELSE Escalate(m, bx + 1)

\* analogue: packed is the depth handed to pack, index the depth index
\* returned, bx the index the loop ended on.
analogue(m, bits) ==
    LET esc == Escalate(m, Position(DEPTHS, bits))
    IN  [panic |-> esc.panic, bx |-> esc.bx,
         packed |-> bits, index |-> Position(DEPTHS, bits)]

\* Exponents of the largest magnitude, around the limits 2^16 and 2^128 and
\* up to the largest finite f64.
CoefExps == {0, 15, 16, 17, 127, 128, 129, 1023}

AnalogueInputs ==
    {[m |-> [exp |-> e, frac |-> f], bits |-> DEPTHS[i]] :
        e \in CoefExps, f \in BOOLEAN, i \in DOMAIN DEPTHS}

CallAnalogue == Call("analogue", analogue(fcall.arg.m, fcall.arg.bits))

NextAnalogue == CallAnalogue

SpecAnalogue == InitCall(AnalogueInputs) /\ debug_build = FALSE /\ [][NextAnalogue]_vars

\* The indexes from the requested depth upward whose limit the magnitude
\* does not exceed.
Fitting(a) ==
    {bx \in Position(DEPTHS, a.bits)..(Len(DEPTHS) - 1) : ~Exceeds(a.m, DrExp(bx))}

\* C16: analogue packs at the escalated depth and returns the escalated
\* index, the first one from the requested depth upward whose limit
\* 2^(2^(FLOAT_DR[bx]-1)) the largest magnitude does not exceed; when no index
\* of the table has such a limit it stops with the overflow error, and it
\* never reads behind the table.
C16_Escalates ==
    fcall.fn = "analogue" =>
        IF Fitting(fcall.arg) = {}
        THEN fcall.res.panic = "overflow"
        ELSE /\ fcall.res.panic = "none"
             /\ fcall.res.index \in Fitting(fcall.arg)
             /\ \A bx \in Fitting(fcall.arg) : fcall.res.index <= bx
             /\ fcall.res.packed = DEPTHS[fcall.res.index + 1]

\* 16 bits requested for coefficients up to 2^17: the loop ended on index 2,
\* the data was packed at 16 bits and index 1 returned, whose limit is 2^16.
C16_Witness ==
    /\ fcall.fn = "analogue"
    /\ fcall.arg = [m |-> [exp |-> 17, frac |-> FALSE], bits |-> 16]
    /\ fcall.res = [panic |-> "none", bx |-> 2, packed |-> 16, index |-> 1]
    /\ Exceeds(fcall.arg.m, DrExp(fcall.res.index))

============================================================================
